---- MODULE Spec2Model ----
(***************************************************************************)
(* Compliance requirement derivation (knowledge_base.py), chunk scheduling *)
(* and judgment orchestration (app/routes.py, app/services/ai_service.py). *)
(*                                                                         *)
(* The specifications share the variables:                                 *)
(*   SpecDerive      build_requirements_from_db over a session's lifetime  *)
(*   SpecDeriveFair  one derivation after another, its body running on     *)
(*   SpecChunk       chunk_list as a pure function                         *)
(*   Spec            analyze_report and its background runs                *)
(***************************************************************************)
EXTENDS Integers, Sequences, FiniteSets, TLC

VARIABLES
    \* ---- rule catalog (load_knowledge_base), fixed during a behaviour
    splosni_pogoji_katalog, \* clause numbers with non-empty general content
    clen_data_map,          \* land-use code -> [parent_clen_key, captured]
    \* ---- the session and the inputs of a derivation
    session_data,           \* [project_text, image_paths, revision_history]
    raba_list,              \* land-use codes of the request (upper-case, not empty:
                            \* app/routes.py line 423 rejects an empty list)
    eup_list,               \* planning-unit codes of the request (sequence)
    \* ---- build_requirements_from_db in progress
    dpc,                    \* "idle" | "rabe" | "done" | "raised"
    zahteve,                \* requirements emitted so far
    dodani_cleni,
    dodane_namenske_rabe,
    ciste_namenske_rabe,    \* direct codes still to be processed (sorted)
    stack,                  \* frames of add_podrobni_pogoji
    derived,                \* results of the derivations completed so far
    \* ---- chunk_list
    chunk_data, chunk_size, chunk_out, chunk_pc,
    \* ---- the process: configuration, cache entries, background runs
    GEMINI_ANALYSIS_CONCURRENCY, \* app/config.py lines 37-38
    semaphore,              \* value of AIService._analysis_semaphore
    sessions,               \* session ids with cached session data
    progress,               \* cache entry progress:<id>   (<<>> when absent)
    report,                 \* cache entry report:<id>, its results_map
    analysis_result,        \* cache entry analysis_result:<id>, its results_map
    runs,                   \* run -> state of analyze_report and its background task
    \* ---- confirm_report
    confirm_cache,          \* cache entry report:<id> of one session (<<>> when absent)
    confirmed,              \* the confirm_report requests answered so far
    \* ---- get_progress, get_analyze_report_result
    polled,                 \* the last poll answered (<<>> before the first)
    \* ---- upload_revision
    revisions,              \* rows of the table revisions of the session, oldest first
    uploads                 \* request -> state of an upload_revision in progress

derive_vars == <<splosni_pogoji_katalog, clen_data_map, session_data, raba_list,
                 eup_list, dpc, zahteve, dodani_cleni, dodane_namenske_rabe,
                 ciste_namenske_rabe, stack, derived>>
chunk_vars == <<chunk_data, chunk_size, chunk_out, chunk_pc>>
orch_vars == <<GEMINI_ANALYSIS_CONCURRENCY, semaphore, sessions, progress, report,
               analysis_result, runs>>
handler_vars == <<confirm_cache, confirmed, polled, revisions, uploads>>
vars == <<derive_vars, chunk_vars, orch_vars, handler_vars>>

(***************************************************************************)
(* Bounds of the model.                                                    *)
(***************************************************************************)
\* derivations performed for one session (initial run + re-runs)
MaxDerivations == 2
\* revisions uploaded for one session
MaxRevisions == 1
\* revisions uploaded one after another for a session nothing else touches
MaxUploads == 3
\* depth at which the interpreter raises RecursionError (1000 in CPython)
MaxRecursionDepth == 4
\* codes one clause text refers to
MaxCaptured == 2
\* longest requirement list handed to chunk_list
MaxChunkData == 5
\* largest configured ANALYSIS_CHUNK_SIZE
MaxChunkSize == 3

\* land-use codes of the universe; Codes is the pool of catalog keys
Codes == {"CU", "SK", "SSE"}
\* a code the catalogs drawn may lack
OptionalCodes == {"CU"}
\* the words parse_pdf finds in an uploaded revision: a keyword of the table
RevisionTexts == {<<"poplavn">>}
\* the general clause numbers the catalog has content for: the first and the
\* last mandatory one (none between them) and a keyword-triggered one
SplosniCleni == {52, 66, 94}

(***************************************************************************)
(* Sequence helpers.                                                       *)
(***************************************************************************)
Range(s) == {s[i] : i \in DOMAIN s}

\* all enumerations of the finite set S without repetition
Orders(S) == {s \in [1..Cardinality(S) -> S] : Range(s) = S}

\* position of code c in the lexicographic order of the universe
\* ("CU" < "SK" < "SSE", the order sorted() gives)
CodeRank(c) == CASE c = "CU" -> 1 [] c = "SK" -> 2 [] c = "SSE" -> 3

\* sorted(S) for a set of codes
Sorted(S) == CHOOSE s \in Orders(S) :
                 \A i, j \in DOMAIN s : i < j => CodeRank(s[i]) < CodeRank(s[j])

(***************************************************************************)
(* knowledge_base.py                                                       *)
(***************************************************************************)
FirstClen == 52
LastMandatoryClen == 66
LastClen == 103

\* the keyword table, restricted to the keyword of RevisionTexts
KEYWORD_TO_CLEN == [k \in {"poplavn"} |-> 94]

KAT_SPLOSNI == <<"Splosni prostorski izvedbeni pogoji (PIP)">>
KAT_NRP == <<"Podrobni prostorski izvedbeni pogoji (PIP NRP)">>
KAT_EUP == <<"Posebni prostorski izvedbeni pogoji (PIP EUP)">>
KAT_PRILOGA1 == <<"Skladnost z Prilogo 1 (Enostavni/Nezahtevni objekti)">>
NAPOTILO == <<" - Napotilo">>

\* priloga2 table_entries: planning unit -> posebni_pip
Priloga2 == [e \in {"LI-1", "LI-2"} |-> IF e = "LI-1" THEN "pip" ELSE "-"]
\* priloga1 land_uses: the codes the permission matrix has a column for
Priloga1LandUses == {"SSE"}

\* lines 245-249: clause numbers triggered by a keyword of the project text
triggered_optional_cleni(project_text) ==
    IF project_text = <<>> THEN {}
    ELSE {KEYWORD_TO_CLEN[k] : k \in {w \in DOMAIN KEYWORD_TO_CLEN :
                                        \E i \in DOMAIN project_text : project_text[i] = w}}

Zahteva(kategorija, clen, raba, eup, rabe) ==
    [kategorija |-> kategorija, clen |-> clen, raba |-> raba, eup |-> eup, rabe |-> rabe]

\* the mandatory range ending one clause early
is_mandatory_Short(i) == i < LastMandatoryClen

\* line 282
is_mandatory(i) == i <= LastMandatoryClen

\* lines 280-302: the loop over the general clauses, from clause i on
RECURSIVE SplosniLoop(_, _, _, _)
SplosniLoop(i, triggered, zs, dodani) ==
    IF i > LastClen THEN [zahteve |-> zs, dodani_cleni |-> dodani]
    ELSE IF ~is_mandatory(i) /\ i \notin triggered THEN SplosniLoop(i + 1, triggered, zs, dodani)
    ELSE IF i \in dodani THEN SplosniLoop(i + 1, triggered, zs, dodani)
    ELSE IF i \notin splosni_pogoji_katalog THEN SplosniLoop(i + 1, triggered, zs, dodani)
    ELSE SplosniLoop(i + 1, triggered,
                     Append(zs, Zahteva(KAT_SPLOSNI, i, "", "", {})),
                     dodani \cup {i})

\* the mutant of extract_referenced_namenske_rabe: no reference is found
extract_referenced_namenske_rabe_None(raba_key) == {}

\* lines 149-168: the codes a clause text refers to that the catalog knows
extract_referenced_namenske_rabe(raba_key) ==
    {r \in clen_data_map[raba_key].captured : r \in DOMAIN clen_data_map}

\* the visited check left out
AlreadyAdded_Never(raba_key) == FALSE

\* line 253
AlreadyAdded(raba_key) == raba_key \in dodane_namenske_rabe

\* lines 251-278: one call of add_podrobni_pogoji, up to the loop over the
\* references; the loop itself runs frame by frame (CallReferenced, Return).
\* The iteration order of the set of references is not fixed by the language.
add_podrobni_pogoji(raba_key, kategorija) ==
    IF AlreadyAdded(raba_key) \/ raba_key \notin DOMAIN clen_data_map
    THEN UNCHANGED <<dpc, zahteve, dodani_cleni, dodane_namenske_rabe, stack>>
    ELSE IF Len(stack) >= MaxRecursionDepth
    THEN /\ dpc' = "raised"
         /\ UNCHANGED <<zahteve, dodani_cleni, dodane_namenske_rabe, stack>>
    ELSE /\ zahteve' = Append(zahteve,
                Zahteva(kategorija, clen_data_map[raba_key].parent_clen_key, raba_key, "", {}))
         /\ dodane_namenske_rabe' = dodane_namenske_rabe \cup {raba_key}
         /\ dodani_cleni' = dodani_cleni \cup {clen_data_map[raba_key].parent_clen_key}
         /\ \E order \in Orders(extract_referenced_namenske_rabe(raba_key)) :
                stack' = Append(stack, [refs |-> order, kategorija |-> kategorija])
         /\ UNCHANGED dpc

\* lines 310-337: the planning-unit loop over eup_list[i..]
RECURSIVE EupLoop(_, _, _)
EupLoop(i, zs, processed_eups) ==
    IF i > Len(eup_list) THEN zs
    ELSE LET eup == eup_list[i] IN
         IF eup \in processed_eups \/ eup \notin DOMAIN Priloga2 THEN EupLoop(i + 1, zs, processed_eups)
         ELSE IF Priloga2[eup] # "" /\ Priloga2[eup] # "-"
         THEN EupLoop(i + 1, Append(zs, Zahteva(KAT_EUP, 0, "", eup, {})),
                      processed_eups \cup {eup})
         ELSE EupLoop(i + 1, zs, processed_eups)

\* lines 339-363: the consolidated Priloga 1 requirement
Priloga1Step(zs, ciste) ==
    LET rabe_za_prilogo1 == {r \in ciste : r \in Priloga1LandUses} IN
    IF ciste # {} /\ rabe_za_prilogo1 # {}
    THEN Append(zs, Zahteva(KAT_PRILOGA1, 0, "", "", rabe_za_prilogo1))
    ELSE zs

\* lines 365-366: id assignment, Z_i with i counted from 0
AssignIds(zs) == [i \in DOMAIN zs |-> [zahteva |-> zs[i], id |-> i - 1]]

\* lines 230-249, 280-306: entry of build_requirements_from_db
DeriveStart ==
    /\ dpc \in {"idle", "done", "raised"}
    /\ Len(derived) < MaxDerivations
    /\ LET g == SplosniLoop(FirstClen, triggered_optional_cleni(session_data.project_text),
                            <<>>, {})
       IN /\ zahteve' = g.zahteve
          /\ dodani_cleni' = g.dodani_cleni
    /\ dodane_namenske_rabe' = {}
    /\ ciste_namenske_rabe' = Sorted({r \in raba_list : r \in DOMAIN clen_data_map})
    /\ stack' = <<>>
    /\ dpc' = "rabe"
    /\ UNCHANGED <<splosni_pogoji_katalog, clen_data_map, session_data, raba_list,
                   eup_list, derived, chunk_vars, orch_vars, handler_vars>>

\* lines 307-308: the next direct land-use code
CallDirect ==
    /\ dpc = "rabe" /\ stack = <<>> /\ ciste_namenske_rabe # <<>>
    /\ add_podrobni_pogoji(Head(ciste_namenske_rabe), KAT_NRP)
    /\ ciste_namenske_rabe' = Tail(ciste_namenske_rabe)
    /\ UNCHANGED <<splosni_pogoji_katalog, clen_data_map, session_data, raba_list,
                   eup_list, derived, chunk_vars, orch_vars, handler_vars>>

\* lines 276-278: the next reference of the innermost call
CallReferenced ==
    /\ dpc = "rabe" /\ stack # <<>>
    /\ LET top == stack[Len(stack)] IN
       /\ top.refs # <<>>
       /\ LET ref_raba == Head(top.refs)
              advanced == [stack EXCEPT ![Len(stack)].refs = Tail(top.refs)]
          IN IF ref_raba \in raba_list
             THEN /\ stack' = advanced
                  /\ UNCHANGED <<dpc, zahteve, dodani_cleni, dodane_namenske_rabe>>
             ELSE IF AlreadyAdded(ref_raba) \/ ref_raba \notin DOMAIN clen_data_map
             THEN /\ stack' = advanced
                  /\ UNCHANGED <<dpc, zahteve, dodani_cleni, dodane_namenske_rabe>>
             ELSE IF Len(stack) >= MaxRecursionDepth
             THEN /\ dpc' = "raised"
                  /\ UNCHANGED <<zahteve, dodani_cleni, dodane_namenske_rabe, stack>>
             ELSE /\ zahteve' = Append(zahteve,
                         Zahteva(top.kategorija \o NAPOTILO,
                                 clen_data_map[ref_raba].parent_clen_key, ref_raba, "", {}))
                  /\ dodane_namenske_rabe' = dodane_namenske_rabe \cup {ref_raba}
                  /\ dodani_cleni' = dodani_cleni \cup {clen_data_map[ref_raba].parent_clen_key}
                  /\ \E order \in Orders(extract_referenced_namenske_rabe(ref_raba)) :
                         stack' = Append(advanced,
                                         [refs |-> order, kategorija |-> top.kategorija \o NAPOTILO])
                  /\ UNCHANGED dpc
    /\ UNCHANGED <<splosni_pogoji_katalog, clen_data_map, session_data, raba_list,
                   eup_list, ciste_namenske_rabe, derived, chunk_vars, orch_vars, handler_vars>>

\* the innermost call of add_podrobni_pogoji has followed all its references
Return ==
    /\ dpc = "rabe" /\ stack # <<>>
    /\ stack[Len(stack)].refs = <<>>
    /\ stack' = SubSeq(stack, 1, Len(stack) - 1)
    /\ UNCHANGED <<splosni_pogoji_katalog, clen_data_map, session_data, raba_list,
                   eup_list, dpc, zahteve, dodani_cleni, dodane_namenske_rabe,
                   ciste_namenske_rabe, derived, chunk_vars, orch_vars, handler_vars>>

\* lines 310-367: planning units, Priloga 1, id assignment, return
DeriveFinish ==
    /\ dpc = "rabe" /\ stack = <<>> /\ ciste_namenske_rabe = <<>>
    /\ LET ciste == {r \in raba_list : r \in DOMAIN clen_data_map}
           zs == Priloga1Step(EupLoop(1, zahteve, {}), ciste)
       IN /\ zahteve' = zs
          /\ derived' = Append(derived, [project_text |-> session_data.project_text,
                                         zahteve |-> AssignIds(zs)])
    /\ dpc' = "done"
    /\ UNCHANGED <<splosni_pogoji_katalog, clen_data_map, session_data, raba_list,
                   eup_list, dodani_cleni, dodane_namenske_rabe, ciste_namenske_rabe,
                   stack, chunk_vars, orch_vars, handler_vars>>

(***************************************************************************)
(* app/routes.py: upload_revision, its requests executed one after another *)
(***************************************************************************)
\* the mutant of ExtendProjectText: the revision block takes the place of the text
ExtendProjectText_Replace(existing_text, text) ==
    IF text = <<>> THEN existing_text
    ELSE <<"--- REVIZIJA DOKUMENTACIJE ---">> \o text

\* lines 763-770: the project text extended by the revision block; text is
\* the words parse_pdf found in the uploaded files (none for a scanned file)
ExtendProjectText(existing_text, text) ==
    IF text = <<>> THEN existing_text
    ELSE LET revision_block == <<"--- REVIZIJA DOKUMENTACIJE ---">> \o text
         IN IF existing_text # <<>> THEN existing_text \o revision_block ELSE revision_block

\* lines 763-787: the session after an accepted revision
upload_revision(data, parsed_ids, text, new_image_paths, note) ==
    [project_text |-> ExtendProjectText(data.project_text, text),
     image_paths |-> data.image_paths \o new_image_paths,
     revision_history |-> Append(data.revision_history,
                                 [requirement_ids |-> parsed_ids, note |-> note])]

\* line 738, and database.py lines 152-165: the row record_revision inserts;
\* requirement_id is <<>> for None
primary_requirement(parsed_ids) == IF Len(parsed_ids) = 1 THEN <<parsed_ids[1]>> ELSE <<>>

record_revision(rows, requirement_id, note) ==
    Append(rows, [requirement_id |-> requirement_id, note |-> note])

\* temp_storage.py lines 39-54: the paths of n new images, numbered after the
\* largest index the session directory holds
save_images_for_session(image_paths, n) ==
    LET start_index == IF image_paths = <<>> THEN 0
                       ELSE CHOOSE m \in Range(image_paths) : \A x \in Range(image_paths) : x <= m
    IN [offset \in 1..n |-> start_index + offset]

\* a revision accepted between two derivations of the session; the ids it
\* names (line 707 requires some) come from a derivation made before it
UploadRevision ==
    /\ dpc \in {"done", "raised"}
    /\ Len(derived) < MaxDerivations
    /\ Len(session_data.revision_history) < MaxRevisions
    /\ \E text \in RevisionTexts :
           session_data' = upload_revision(session_data, <<0>>, text, <<>>, "")
    /\ revisions' = record_revision(revisions, primary_requirement(<<0>>), "")
    /\ UNCHANGED <<splosni_pogoji_katalog, clen_data_map, raba_list, eup_list, dpc,
                   zahteve, dodani_cleni, dodane_namenske_rabe, ciste_namenske_rabe,
                   stack, derived, chunk_vars, orch_vars, confirm_cache, confirmed, polled,
                   uploads>>

\* lines 690-787 for a session in the cache, requests executed one after
\* another: the ids parse (line 707), a file has content (line 734); the
\* files may hold no text (a scan) and may have pages to convert to images
UploadRevisionRequest ==
    /\ dpc = "idle"
    /\ Len(session_data.revision_history) < MaxUploads
    /\ \E parsed_ids \in {<<0>>, <<0, 1>>}, text \in {<<>>} \cup RevisionTexts,
          revision_images \in 0..1, note \in {"", "n"} :
           /\ revisions' = record_revision(revisions, primary_requirement(parsed_ids), note)
           /\ session_data' =
                  upload_revision(session_data, parsed_ids, text,
                                  save_images_for_session(session_data.image_paths,
                                                          revision_images), note)
    /\ UNCHANGED <<splosni_pogoji_katalog, clen_data_map, raba_list, eup_list, dpc,
                   zahteve, dodani_cleni, dodane_namenske_rabe, ciste_namenske_rabe,
                   stack, derived, chunk_vars, orch_vars, confirm_cache, confirmed, polled,
                   uploads>>

(***************************************************************************)
(* app/routes.py: chunk_list                                               *)
(***************************************************************************)
Min(a, b) == IF a <= b THEN a ELSE b

\* the slices starting one element late after the first
RECURSIVE chunk_list_Skipping(_, _)
chunk_list_Skipping(data, size) ==
    IF data = <<>> THEN <<>>
    ELSE <<SubSeq(data, 1, Min(size, Len(data)))>>
         \o chunk_list_Skipping(SubSeq(data, Min(size + 1, Len(data)) + 1, Len(data)), size)

\* lines 58-59: data[i : i + size] for i in range(0, len(data), size), as the
\* list of the slices; ChunkFrom takes the 0-based start i
RECURSIVE ChunkFrom(_, _, _)
ChunkFrom(data, size, i) ==
    IF i >= Len(data) THEN <<>>
    ELSE <<SubSeq(data, i + 1, Min(i + size, Len(data)))>> \o ChunkFrom(data, size, i + size)

chunk_list(data, size) == ChunkFrom(data, size, 0)

InitChunkIdle ==
    /\ chunk_data = <<>> /\ chunk_size = 1 /\ chunk_out = <<>> /\ chunk_pc = "idle"

InitDeriveIdle ==
    /\ splosni_pogoji_katalog = {}
    /\ clen_data_map = <<>>
    /\ session_data = [project_text |-> <<>>, image_paths |-> <<>>, revision_history |-> <<>>]
    /\ raba_list = {}
    /\ eup_list = <<>>
    /\ dpc = "idle"
    /\ zahteve = <<>>
    /\ dodani_cleni = {}
    /\ dodane_namenske_rabe = {}
    /\ ciste_namenske_rabe = <<>>
    /\ stack = <<>>
    /\ derived = <<>>

\* no session, no request: the process as the derivation and chunk_list
\* specifications leave it
InitOrchIdle ==
    /\ GEMINI_ANALYSIS_CONCURRENCY = 1
    /\ semaphore = 1
    /\ sessions = {}
    /\ progress = <<>>
    /\ report = <<>>
    /\ analysis_result = <<>>
    /\ runs = <<>>

\* no report to confirm, no poll answered, no revision recorded or under way
InitHandlersIdle ==
    /\ confirm_cache = <<>>
    /\ confirmed = <<>>
    /\ polled = <<>>
    /\ revisions = <<>>
    /\ uploads = <<>>

\* the lists of at most n elements of S
SeqsUpTo(S, n) == UNION {[1..k -> S] : k \in 0..n}

\* a requirement list (its ids) and a configured ANALYSIS_CHUNK_SIZE
InitChunk ==
    /\ chunk_data \in SeqsUpTo({0, 1}, MaxChunkData)
    /\ chunk_size \in 1..MaxChunkSize
    /\ chunk_out = <<>>
    /\ chunk_pc = "idle"
    /\ InitDeriveIdle
    /\ InitOrchIdle
    /\ InitHandlersIdle

\* line 486: list(chunk_list(zahteve_za_analizo, ANALYSIS_CHUNK_SIZE))
ChunkApply ==
    /\ chunk_pc = "idle"
    /\ chunk_out' = chunk_list(chunk_data, chunk_size)
    /\ chunk_pc' = "done"
    /\ UNCHANGED <<chunk_data, chunk_size, derive_vars, orch_vars, handler_vars>>

NextChunk == ChunkApply

SpecChunk == InitChunk /\ [][NextChunk]_vars

RECURSIVE Concat(_)
Concat(chunks) == IF chunks = <<>> THEN <<>> ELSE Head(chunks) \o Concat(Tail(chunks))

InitDerive ==
    /\ splosni_pogoji_katalog = SplosniCleni
    /\ \E dom \in {Codes, Codes \ OptionalCodes} :
           clen_data_map \in [dom -> [parent_clen_key : {105},
                                      captured : {c \in SUBSET Codes : Cardinality(c) <= MaxCaptured}]]
    /\ session_data \in [project_text : {<<"lorem">>},
                         image_paths : {<<>>}, revision_history : {<<>>}]
    /\ raba_list \in SUBSET Codes \ {{}}
    /\ eup_list \in {<<>>, <<"LI-1">>}
    /\ dpc = "idle"
    /\ zahteve = <<>>
    /\ dodani_cleni = {}
    /\ dodane_namenske_rabe = {}
    /\ ciste_namenske_rabe = <<>>
    /\ stack = <<>>
    /\ derived = <<>>
    /\ InitChunkIdle
    /\ InitOrchIdle
    /\ InitHandlersIdle

NextDerive ==
    \/ DeriveStart
    \/ CallDirect
    \/ CallReferenced
    \/ Return
    \/ DeriveFinish
    \/ UploadRevision

SpecDerive == InitDerive /\ [][NextDerive]_vars

\* build_requirements_from_db is synchronous code: once entered, it runs on
DeriveRun == CallDirect \/ CallReferenced \/ Return \/ DeriveFinish
\* termination does not depend on the planning units nor on the project text
InitTerminate == InitDerive /\ eup_list = <<>>
NextTerminate == DeriveStart \/ DeriveRun
SpecDeriveFair == InitTerminate /\ [][NextTerminate]_vars /\ WF_vars(DeriveRun)

\* a session as the extraction left it (with or without text and images),
\* no revision uploaded yet
InitRevision ==
    /\ splosni_pogoji_katalog = {}
    /\ clen_data_map = <<>>
    /\ session_data \in [project_text : {<<>>, <<"lorem">>},
                         image_paths : {<<>>, <<1>>}, revision_history : {<<>>}]
    /\ raba_list = {}
    /\ eup_list = <<>>
    /\ dpc = "idle"
    /\ zahteve = <<>>
    /\ dodani_cleni = {}
    /\ dodane_namenske_rabe = {}
    /\ ciste_namenske_rabe = <<>>
    /\ stack = <<>>
    /\ derived = <<>>
    /\ InitChunkIdle
    /\ InitOrchIdle
    /\ InitHandlersIdle

NextRevision == UploadRevisionRequest

SpecRevision == InitRevision /\ [][NextRevision]_vars

(***************************************************************************)
(* app/routes.py: upload_revision, requests of one process interleaved at  *)
(* the awaits of the handler.                                              *)
(***************************************************************************)
Uploaders == {1, 2}

\* what parse_pdf finds in the file of each request that has text
UploadWords == <<"poplavn", "naklon">>

IdleUpload ==
    [pc |-> "idle", session_id |-> "", parsed_ids |-> <<>>, has_file |-> FALSE,
     text |-> <<>>, note |-> "", session_data |-> <<>>, stored_files |-> 0, code |-> 0]

\* lines 690-708: the session is read from the cache into the request's own
\* session_data (404 without it) and the ids are parsed (400 without any).
\* The request has no revision_pages; has_file: some upload has content
UploadRetrieve(u) ==
    /\ uploads[u].pc = "idle"
    /\ \E session_id \in {"s2", "gone"}, parsed_ids \in {<<>>, <<0>>, <<0, 1>>},
          has_file \in BOOLEAN, text \in {<<>>, <<UploadWords[u]>>}, note \in {"", "n"} :
           /\ has_file \/ text = <<>>
           /\ LET request == [IdleUpload EXCEPT !.session_id = session_id,
                                                !.parsed_ids = parsed_ids,
                                                !.has_file = has_file,
                                                !.text = text, !.note = note]
              IN uploads' = [uploads EXCEPT ![u] =
                     IF session_id \notin sessions
                     THEN [request EXCEPT !.pc = "rejected", !.code = 404]
                     ELSE IF parsed_ids = <<>>
                     THEN [request EXCEPT !.pc = "rejected", !.code = 400]
                     ELSE [request EXCEPT !.pc = "files",
                                          !.session_data = <<session_data>>]]
    /\ UNCHANGED <<derive_vars, chunk_vars, orch_vars, confirm_cache, confirmed, polled,
                   revisions>>

\* the files written and the row inserted before the uploads are looked at
UploadFiles_SaveFirst(u) ==
    /\ uploads[u].pc = "files"
    /\ uploads' = [uploads EXCEPT ![u].pc = IF uploads[u].has_file THEN "recorded"
                                            ELSE "rejected",
                                  ![u].code = IF uploads[u].has_file THEN 0 ELSE 400,
                                  ![u].stored_files = 1]
    /\ revisions' = record_revision(revisions, primary_requirement(uploads[u].parsed_ids),
                                    uploads[u].note)
    /\ UNCHANGED <<derive_vars, chunk_vars, orch_vars, confirm_cache, confirmed, polled>>

\* lines 723-761: the uploads are read and parsed (400 when none has
\* content), then save_revision_files writes the files and record_revision
\* inserts the row
UploadFiles(u) ==
    /\ uploads[u].pc = "files"
    /\ IF ~uploads[u].has_file
       THEN /\ uploads' = [uploads EXCEPT ![u].pc = "rejected", ![u].code = 400]
            /\ UNCHANGED revisions
       ELSE /\ uploads' = [uploads EXCEPT ![u].pc = "recorded", ![u].stored_files = 1]
            /\ revisions' = record_revision(revisions,
                                            primary_requirement(uploads[u].parsed_ids),
                                            uploads[u].note)
    /\ UNCHANGED <<derive_vars, chunk_vars, orch_vars, confirm_cache, confirmed, polled>>

\* lines 763-787: the request's session_data, extended, is written to the cache
UploadStore(u) ==
    /\ uploads[u].pc = "recorded"
    /\ session_data' = upload_revision(uploads[u].session_data[1], uploads[u].parsed_ids,
                                       uploads[u].text, <<>>, uploads[u].note)
    /\ uploads' = [uploads EXCEPT ![u].pc = "done", ![u].code = 200]
    /\ UNCHANGED <<splosni_pogoji_katalog, clen_data_map, raba_list, eup_list, dpc,
                   zahteve, dodani_cleni, dodane_namenske_rabe, ciste_namenske_rabe,
                   stack, derived, chunk_vars, orch_vars, confirm_cache, confirmed, polled,
                   revisions>>

\* one session in the cache as the extraction left it, two requests to come
InitUpload ==
    /\ splosni_pogoji_katalog = {}
    /\ clen_data_map = <<>>
    /\ session_data \in [project_text : {<<>>, <<"lorem">>},
                         image_paths : {<<>>}, revision_history : {<<>>}]
    /\ raba_list = {}
    /\ eup_list = <<>>
    /\ dpc = "idle"
    /\ zahteve = <<>>
    /\ dodani_cleni = {}
    /\ dodane_namenske_rabe = {}
    /\ ciste_namenske_rabe = <<>>
    /\ stack = <<>>
    /\ derived = <<>>
    /\ InitChunkIdle
    /\ GEMINI_ANALYSIS_CONCURRENCY = 1
    /\ semaphore = 1
    /\ sessions = {"s2"}
    /\ progress = <<>>
    /\ report = <<>>
    /\ analysis_result = <<>>
    /\ runs = <<>>
    /\ confirm_cache = <<>>
    /\ confirmed = <<>>
    /\ polled = <<>>
    /\ revisions = <<>>
    /\ uploads = [u \in Uploaders |-> IdleUpload]

NextUpload ==
    \E u \in Uploaders :
        \/ UploadRetrieve(u)
        \/ UploadFiles(u)
        \/ UploadStore(u)

SpecUpload == InitUpload /\ [][NextUpload]_vars

(***************************************************************************)
(* Properties of upload_revision.                                          *)
(***************************************************************************)
IsPrefix(s, t) == Len(s) <= Len(t) /\ SubSeq(t, 1, Len(s)) = s

\* C19: every accepted revision leaves the project text it found as a prefix
\* of the new text and the image paths it found as a prefix of the new list,
\* and appends one record to the history of the session and one row to the
\* table of revisions, the earlier ones unchanged.
C19_RevisionsOnlyAdd ==
    [][/\ IsPrefix(session_data.project_text, session_data'.project_text)
       /\ IsPrefix(session_data.image_paths, session_data'.image_paths)
       /\ Len(session_data'.revision_history) = Len(session_data.revision_history) + 1
       /\ IsPrefix(session_data.revision_history, session_data'.revision_history)
       /\ Len(revisions') = Len(revisions) + 1
       /\ IsPrefix(revisions, revisions')]_vars

\* three revisions accepted in a row for a session with text and an image:
\* the text grew twice and the images once
C19_Witness ==
    /\ Len(session_data.revision_history) = 3
    /\ Len(revisions) = 3
    /\ Len(session_data.project_text) = 5
    /\ session_data.project_text[1] = "lorem"
    /\ session_data.image_paths = <<1, 2>>

(***************************************************************************)
(* Properties of the derivation.                                           *)
(***************************************************************************)
\* two requirements denote the same clause of the regulation
SameClause(x, y) ==
    /\ x.kategorija[1] = y.kategorija[1]
    /\ x.clen = y.clen /\ x.raba = y.raba /\ x.eup = y.eup /\ x.rabe = y.rabe

\* C5: every derivation made for a session (the initial run and the re-runs
\* after upload_revision extended the project text), with the same land-use
\* and planning-unit codes, gives the same clause the same id.
C5_IdsStableInSession ==
    \A a, b \in DOMAIN derived :
        \A i \in DOMAIN derived[a].zahteve, j \in DOMAIN derived[b].zahteve :
            SameClause(derived[a].zahteve[i].zahteva, derived[b].zahteve[j].zahteva)
                => derived[a].zahteve[i].id = derived[b].zahteve[j].id

\* the land-use requirements of a requirement list that are about code c
RabaZahteve(zs, c) == {i \in DOMAIN zs : zs[i].raba = c}

\* C6: in every state of a derivation, whatever the reference graph, the
\* list holds at most one land-use requirement per land-use code.
C6_NoDuplicateRaba ==
    \A c \in Codes : Cardinality(RabaZahteve(zahteve, c)) <= 1

\* a derivation finished on a catalog in which two codes that were not
\* supplied refer to each other, and both were emitted
C6_Witness ==
    /\ dpc = "done"
    /\ \E a, b \in DOMAIN clen_data_map \ raba_list :
           /\ a # b
           /\ b \in clen_data_map[a].captured /\ a \in clen_data_map[b].captured
           /\ RabaZahteve(zahteve, a) # {} /\ RabaZahteve(zahteve, b) # {}

\* C7: every derivation that was entered returns, also on a catalog whose
\* land-use clauses refer to each other in a cycle.
C7_DerivationTerminates == (dpc = "rabe") ~> (dpc = "done")

\* a derivation returned after following a reference of a code to itself
\* and a cycle through three codes
C7_Witness ==
    /\ dpc = "done"
    /\ Len(derived) = 1
    /\ \E a \in raba_list \cap DOMAIN clen_data_map, b, c \in DOMAIN clen_data_map \ raba_list :
           /\ b # c
           /\ b \in clen_data_map[a].captured
           /\ c \in clen_data_map[b].captured /\ b \in clen_data_map[b].captured
           /\ a \in clen_data_map[c].captured /\ b \in clen_data_map[c].captured
           /\ RabaZahteve(zahteve, c) # {}

\* C8: two derivations with the same catalog, codes and project text give
\* the same ordered requirement list with the same ids.
C8_Deterministic ==
    \A a, b \in DOMAIN derived :
        derived[a].project_text = derived[b].project_text
            => derived[a].zahteve = derived[b].zahteve

\* the general requirements of a finished list that are clause number n
SplosneZahteve(zs, n) ==
    {i \in DOMAIN zs : zs[i].zahteva.kategorija = KAT_SPLOSNI /\ zs[i].zahteva.clen = n}

\* C9: every general clause 52..66 the catalog has content for is exactly
\* once in each derived list, whatever the text and the codes.
C9_MandatoryCoverage ==
    \A d \in DOMAIN derived :
        \A n \in FirstClen..LastMandatoryClen :
            n \in splosni_pogoji_katalog
                => Cardinality(SplosneZahteve(derived[d].zahteve, n)) = 1

\* a derivation finished on a catalog with content for the last mandatory
\* clause, with land-use and planning-unit requirements beside it
C9_Witness ==
    /\ derived # <<>>
    /\ LastMandatoryClen \in splosni_pogoji_katalog
    /\ SplosneZahteve(derived[1].zahteve, LastMandatoryClen) # {}
    /\ \E i \in DOMAIN derived[1].zahteve : derived[1].zahteve[i].zahteva.raba # ""
    /\ \E i \in DOMAIN derived[1].zahteve : derived[1].zahteve[i].zahteva.eup # ""

\* the mandatory general clauses the catalog has content for
MandatoryCleni == {n \in FirstClen..LastMandatoryClen : n \in splosni_pogoji_katalog}

\* C20: a derivation for one supplied land-use code of the catalog whose
\* clause refers to no other code, with no planning-unit code and no keyword
\* of the table in the text, yields the mandatory general clauses and one
\* direct land-use requirement for the code, and no other requirement.
C20_SingleCodeNoReferences ==
    \A d \in DOMAIN derived :
        \A c \in Codes :
            (/\ raba_list = {c}
             /\ c \in DOMAIN clen_data_map
             /\ clen_data_map[c].captured \subseteq {c}
             /\ eup_list = <<>>
             /\ triggered_optional_cleni(derived[d].project_text) = {})
            => LET zs == derived[d].zahteve IN
               /\ Len(zs) = Cardinality(MandatoryCleni) + 1
               /\ \A n \in MandatoryCleni : Cardinality(SplosneZahteve(zs, n)) = 1
               /\ \E i \in DOMAIN zs :
                      zs[i].zahteva = Zahteva(KAT_NRP, clen_data_map[c].parent_clen_key, c, "", {})

\* the catalog codes reachable from the codes of S along the references
\* between clause texts, restricted to codes of the catalog
RECURSIVE ReachableFrom(_)
ReachableFrom(S) ==
    LET T == S \cup UNION {clen_data_map[c].captured \cap DOMAIN clen_data_map : c \in S}
    IN IF T = S THEN S ELSE ReachableFrom(T)

\* the land-use codes a requirement list has a requirement for
EmittedCodes(zs) == {zs[i].raba : i \in {j \in DOMAIN zs : zs[j].raba # ""}}

\* C23: a derivation that returned emitted exactly the catalog codes
\* reachable from the supplied codes the catalog has; it returns also when a
\* supplied or referenced code is not in the catalog.
C23_ReachabilityClosure ==
    /\ dpc = "done" =>
           EmittedCodes(zahteve) = ReachableFrom(raba_list \cap DOMAIN clen_data_map)
    /\ (Cardinality(Codes) < MaxRecursionDepth) => dpc # "raised"

\* a derivation returned for a supplied code the catalog lacks and one it
\* has, whose clause refers to the lacking code and to a further code that
\* was not supplied and was emitted
C23_Witness ==
    /\ dpc = "done"
    /\ \E a \in raba_list \ DOMAIN clen_data_map, b \in raba_list \cap DOMAIN clen_data_map,
          c \in DOMAIN clen_data_map \ raba_list :
           /\ clen_data_map[b].captured = {a, c}
           /\ EmittedCodes(zahteve) = {b, c}

\* the five categories: general, land-use direct, land-use referred-to,
\* planning-unit, Priloga 1
Taxonomy == {KAT_SPLOSNI, KAT_NRP, KAT_NRP \o NAPOTILO, KAT_EUP, KAT_PRILOGA1}

\* C24: every requirement of a derivation has one of the five categories,
\* whatever the catalog and the depth of the reference chain.
C24_FixedTaxonomy ==
    \A i \in DOMAIN zahteve : zahteve[i].kategorija \in Taxonomy

(***************************************************************************)
(* analyze_report and _process_analyze_report_background (app/routes.py),  *)
(* analyze_compliance and parse_ai_response (app/services/ai_service.py).  *)
(***************************************************************************)
\* requirements derived for the larger session: ids Z_0 .. Z_(n-1)
MaxZahteve == 5
\* the ANALYSIS_CHUNK_SIZE the process is configured with
ConfiguredChunkSize == 2
\* largest value of the environment variable GEMINI_ANALYSIS_CONCURRENCY
MaxConcurrencyEnv == 2

\* requests to start an analysis the process receives
Runs == {1, 2}
\* "gone" is an id the cache holds no session data for
SessionIds == {"s1", "s2", "gone"}
CachedSessions == {"s1", "s2"}

Max(a, b) == IF a >= b THEN a ELSE b

\* build_requirements_from_db for the session of a run, as the ids of the
\* list: s1 is a session with MaxZahteve requirements, s2 one with a single one
build_requirements_ids(session_id) ==
    [i \in 1..(IF session_id = "s1" THEN MaxZahteve ELSE 1) |-> i - 1]

\* line 440
filter_selected(ids, selected_ids) ==
    IF selected_ids # {} THEN SelectSeq(ids, LAMBDA z : z \in selected_ids) ELSE ids

\* the progress payloads of lines 611-616, 426-431, ..., 575-582
Snapshot(step, percentage, completed, error, message) ==
    [step |-> step, total_steps |-> 5, percentage |-> percentage,
     completed |-> completed, error |-> error, message |-> message]

\* lines 264-270: the last snapshot of _process_extract_data_background,
\* stored after the session data
ExtractDone ==
    [step |-> 4, total_steps |-> 4, percentage |-> 100, completed |-> TRUE, error |-> FALSE,
     message |-> "Koncano!"]

\* the mutant of Failure: the handler leaves the completed flag out
Failure_Unfinished(detail) == Snapshot(0, 0, FALSE, TRUE, "Napaka: " \o detail)

\* lines 573-582: the snapshot the handler of the background task stores for
\* the exception whose str() is detail
Failure(detail) == Snapshot(0, 0, TRUE, TRUE, "Napaka: " \o detail)

\* an item of the model's answer; run and batch tell whose answer it is
Judgment(id, r, b) == [id |-> id, skladnost |-> "Skladno", run |-> r, batch |-> b]
\* lines 293-299
Placeholder(id) == [id |-> id, skladnost |-> "Neznano", run |-> 0, batch |-> 0]

\* what a resolved analyze_compliance task gives to gather
RaisedException == [kind |-> "exception", ids |-> {}]
NoResponse == [kind |-> "none", ids |-> {}]
Text(kind, ids) == [kind |-> kind, ids |-> ids]

\* an id the batch was not asked about: the smallest one outside it
ForeignId(B) == CHOOSE i \in (0..MaxZahteve) \ B : \A j \in (0..MaxZahteve) \ B : i <= j

\* the ids the items of a JSON list answer: those of the batch, or, in a
\* careless answer, a foreign one in place of the last of the batch
AnsweredSets(chunk) ==
    {Range(chunk), (Range(chunk) \ {chunk[Len(chunk)]}) \cup {ForeignId(Range(chunk))}}

\* the texts the model may return for a batch: one that is not a JSON array
\* (not JSON at all, or JSON that is not a list), or a JSON list
ResponseTexts(chunk) ==
    {Text("not_array", {})} \cup {Text("list", ids) : ids \in AnsweredSets(chunk)}

\* lines 268-281: json.loads fails or the value is not a list
parse_raises(response) == response.kind # "list"

\* lines 283-299, for a response that parses
parse_ai_response(response, expected_zahteve, r, b) ==
    [i \in response.ids \cup Range(expected_zahteve) |->
        IF i \in response.ids THEN Judgment(i, r, b) ELSE Placeholder(i)]

\* dict.update
update(d, e) == [k \in DOMAIN d \cup DOMAIN e |-> IF k \in DOMAIN e THEN e[k] ELSE d[k]]

\* the mutant of gather: the results in the order the tasks finished
gather_AsCompleted(tasks, finished) == [k \in DOMAIN finished |-> tasks[finished[k]].response]

\* line 510: asyncio.gather gives the results in the order of the awaitables
\* it was handed, whatever the order in which they finished
gather(tasks, finished) == [b \in DOMAIN tasks |-> tasks[b].response]

\* lines 522-530, from the k-th batch on
RECURSIVE ProcessResponses(_, _, _, _, _)
ProcessResponses(combined, ai_responses, zahteve_chunks, r, k) ==
    IF k > Len(zahteve_chunks) THEN combined
    ELSE IF ai_responses[k].kind = "exception" \/ parse_raises(ai_responses[k])
         THEN ProcessResponses(combined, ai_responses, zahteve_chunks, r, k + 1)
         ELSE ProcessResponses(
                  update(combined, parse_ai_response(ai_responses[k], zahteve_chunks[k], r, k)),
                  ai_responses, zahteve_chunks, r, k + 1)

IdleRun ==
    [pc |-> "idle", session_id |-> "", final_raba_list |-> <<>>, selected_ids |-> {},
     existing_results_map |-> <<>>, zahteve_chunks |-> <<>>, tasks |-> <<>>,
     combined_results_map |-> <<>>, written |-> <<>>, report_before |-> <<>>,
     finished |-> <<>>]

\* the selections a request carries: none (all requirements), the first
\* requirement, an id no derivation yields
Selections == {{}, {0}, {MaxZahteve}}

\* the result maps a client sends along: none (the schema's default), or the
\* canonical map it was given by an earlier run
ExistingMaps(session_id) ==
    {<<>>} \cup (IF report[session_id] # <<>> THEN {report[session_id][1]} ELSE {})

\* cache_manager.store_session_data("progress:<id>", snap) by run r
StoreProgress(r, snap, pc) ==
    /\ progress' = [progress EXCEPT ![runs[r].session_id] = <<snap>>]
    /\ runs' = [runs EXCEPT ![r].pc = pc, ![r].written = Append(@, snap),
                            ![r].finished = IF pc = "done" THEN <<>> ELSE @]

\* run q has not ended
Active(q) == runs[q].pc \notin {"idle", "rejected", "done"}

\* lines 611-616
progress_data == Snapshot(1, 0, FALSE, FALSE, "Inicializacija analize skladnosti...")

\* lines 607-633: the first snapshot is stored before the session is looked up.
\* A client asks for the next analysis of a session when the previous one ended.
AnalyzeReport(r) ==
    /\ runs[r].pc = "idle"
    /\ \A q \in Runs : q < r => runs[q].pc # "idle"
    /\ \E session_id \in SessionIds, final_raba_list \in {<<>>, <<"SSE">>},
          selected_ids \in Selections :
         \E existing_results_map \in ExistingMaps(session_id) :
            /\ \A q \in Runs : Active(q) => runs[q].session_id # session_id
            /\ progress' = [progress EXCEPT ![session_id] = <<progress_data>>]
            /\ runs' = [runs EXCEPT ![r] =
                   [IdleRun EXCEPT
                       !.pc = IF session_id \in sessions THEN "start" ELSE "rejected",
                       !.session_id = session_id,
                       !.final_raba_list = final_raba_list,
                       !.selected_ids = selected_ids,
                       !.existing_results_map = existing_results_map,
                       !.written = <<progress_data>>,
                       !.report_before = report[session_id]]]
    /\ UNCHANGED <<derive_vars, chunk_vars, handler_vars, GEMINI_ANALYSIS_CONCURRENCY, semaphore,
                   sessions, report, analysis_result>>

\* lines 412-431, and 573-582 when 414 or 424 raises
BackgroundLoad(r) ==
    /\ runs[r].pc = "start"
    /\ IF runs[r].session_id \notin sessions \/ runs[r].final_raba_list = <<>>
       THEN StoreProgress(r, Failure(IF runs[r].session_id \notin sessions
                                     THEN "404: Seja je potekla ali ne obstaja."
                                     ELSE "400: Namenska raba manjka."), "done")
       ELSE StoreProgress(r, Snapshot(2, 15, FALSE, FALSE, "Generiranje zahtev skladnosti..."),
                          "derive")
    /\ UNCHANGED <<derive_vars, chunk_vars, handler_vars, GEMINI_ANALYSIS_CONCURRENCY, semaphore,
                   sessions, report, analysis_result>>

\* lines 433-450, and 573-582 when 443 raises
BackgroundDerive(r) ==
    /\ runs[r].pc = "derive"
    /\ IF filter_selected(build_requirements_ids(runs[r].session_id), runs[r].selected_ids) = <<>>
       THEN StoreProgress(r, Failure("400: Ni izbranih zahtev za analizo."), "done")
       ELSE StoreProgress(r, Snapshot(3, 30, FALSE, FALSE, "Pripravljam AI analizo..."), "tasks")
    /\ UNCHANGED <<derive_vars, chunk_vars, handler_vars, GEMINI_ANALYSIS_CONCURRENCY, semaphore,
                   sessions, report, analysis_result>>

\* lines 452-507: one analyze_compliance coroutine per chunk, not yet started
BackgroundCreateTasks(r) ==
    /\ runs[r].pc = "tasks"
    /\ LET zahteve_za_analizo ==
               filter_selected(build_requirements_ids(runs[r].session_id), runs[r].selected_ids)
           zahteve_chunks == chunk_list(zahteve_za_analizo, chunk_size)
           snap == Snapshot(4, 40, FALSE, FALSE, "AI analiza poteka...")
       IN /\ progress' = [progress EXCEPT ![runs[r].session_id] = <<snap>>]
          /\ runs' = [runs EXCEPT
                 ![r].pc = "gather",
                 ![r].zahteve_chunks = zahteve_chunks,
                 ![r].tasks = [b \in DOMAIN zahteve_chunks |->
                                  [state |-> "created", response |-> NoResponse]],
                 ![r].written = Append(@, snap)]
    /\ UNCHANGED <<derive_vars, chunk_vars, handler_vars, GEMINI_ANALYSIS_CONCURRENCY, semaphore,
                   sessions, report, analysis_result>>

\* the mutant of locked: the permit is never refused
locked_Never(value) == FALSE

\* asyncio.Semaphore.locked, as "async with self._analysis_semaphore" asks it
locked(value) == value = 0

\* analyze_compliance lines 229-231: the content is built and a permit taken
TaskAcquire(r, b) ==
    /\ runs[r].pc = "gather"
    /\ runs[r].tasks[b].state = "created"
    /\ ~locked(semaphore)
    /\ semaphore' = semaphore - 1
    /\ runs' = [runs EXCEPT ![r].tasks[b].state = "inflight"]
    /\ UNCHANGED <<derive_vars, chunk_vars, handler_vars, GEMINI_ANALYSIS_CONCURRENCY, sessions,
                   progress, report, analysis_result>>

\* the permit kept when the call raises
TaskResolve_KeepOnError(r, b) ==
    /\ runs[r].pc = "gather"
    /\ runs[r].tasks[b].state = "inflight"
    /\ \E response \in {RaisedException} \cup ResponseTexts(runs[r].zahteve_chunks[b]) :
           /\ semaphore' = IF response = RaisedException THEN semaphore ELSE semaphore + 1
           /\ runs' = [runs EXCEPT ![r].tasks[b] = [state |-> "done", response |-> response],
                                   ![r].finished = Append(@, b)]
    /\ UNCHANGED <<derive_vars, chunk_vars, handler_vars, GEMINI_ANALYSIS_CONCURRENCY, sessions,
                   progress, report, analysis_result>>

\* analyze_compliance lines 232-248: the call returns or raises, the permit
\* is given back; a response without parts and an exception both end as
\* HTTPException
TaskResolve(r, b) ==
    /\ runs[r].pc = "gather"
    /\ runs[r].tasks[b].state = "inflight"
    /\ semaphore' = semaphore + 1
    /\ \E response \in {RaisedException} \cup ResponseTexts(runs[r].zahteve_chunks[b]) :
           runs' = [runs EXCEPT ![r].tasks[b] = [state |-> "done", response |-> response],
                                ![r].finished = Append(@, b)]
    /\ UNCHANGED <<derive_vars, chunk_vars, handler_vars, GEMINI_ANALYSIS_CONCURRENCY, sessions,
                   progress, report, analysis_result>>

\* lines 510-519: gather returns when every task is done
BackgroundGathered(r) ==
    /\ runs[r].pc = "gather"
    /\ \A b \in DOMAIN runs[r].tasks : runs[r].tasks[b].state = "done"
    /\ StoreProgress(r, Snapshot(5, 90, FALSE, FALSE, "Procesiranje rezultatov..."), "process")
    /\ UNCHANGED <<derive_vars, chunk_vars, handler_vars, GEMINI_ANALYSIS_CONCURRENCY, semaphore,
                   sessions, report, analysis_result>>

\* lines 521-548: the map is built from the payload's map and the responses
\* in batch order, and stored as report:<id>
BackgroundProcess(r) ==
    /\ runs[r].pc = "process"
    /\ LET ai_responses == gather(runs[r].tasks, runs[r].finished)
           combined_results_map ==
               ProcessResponses(runs[r].existing_results_map, ai_responses,
                                runs[r].zahteve_chunks, r, 1)
       IN /\ report' = [report EXCEPT ![runs[r].session_id] = <<combined_results_map>>]
          /\ runs' = [runs EXCEPT ![r].pc = "store_result",
                                  ![r].combined_results_map = combined_results_map]
    /\ UNCHANGED <<derive_vars, chunk_vars, handler_vars, GEMINI_ANALYSIS_CONCURRENCY, semaphore,
                   sessions, progress, analysis_result>>

\* lines 551-558, and 573-582 when the store of line 558 raises: the cache
\* is a network service, and setex raises when the connection to it fails
BackgroundStoreResult(r) ==
    /\ runs[r].pc = "store_result"
    /\ \/ /\ analysis_result' = [analysis_result EXCEPT
                                     ![runs[r].session_id] = <<runs[r].combined_results_map>>]
          /\ runs' = [runs EXCEPT ![r].pc = "store_final", ![r].finished = <<>>]
          /\ UNCHANGED progress
       \/ /\ StoreProgress(r, Failure("Connection closed by server."), "done")
          /\ UNCHANGED analysis_result
    /\ UNCHANGED <<derive_vars, chunk_vars, handler_vars, GEMINI_ANALYSIS_CONCURRENCY, semaphore,
                   sessions, report>>

\* the terminal snapshot written before analysis_result:<id> is stored
BackgroundStoreFinal_BeforeResult(r) ==
    /\ runs[r].pc = "store_result"
    /\ StoreProgress(r, Snapshot(5, 100, TRUE, FALSE, "Analiza koncana!"), "done")
    /\ UNCHANGED <<derive_vars, chunk_vars, handler_vars, GEMINI_ANALYSIS_CONCURRENCY, semaphore,
                   sessions, report, analysis_result>>

\* lines 560-567
BackgroundStoreFinal(r) ==
    /\ runs[r].pc = "store_final"
    /\ StoreProgress(r, Snapshot(5, 100, TRUE, FALSE, "Analiza koncana!"), "done")
    /\ UNCHANGED <<derive_vars, chunk_vars, handler_vars, GEMINI_ANALYSIS_CONCURRENCY, semaphore,
                   sessions, report, analysis_result>>

\* the process after start-up: app/config.py lines 37-38 and 118,
\* ai_service.py line 50. The cached sessions are those the extraction task
\* stored (line 250), which left its last snapshot under progress:<id>.
Init ==
    /\ InitDeriveIdle
    /\ chunk_data = <<>> /\ chunk_out = <<>> /\ chunk_pc = "idle"
    /\ chunk_size = ConfiguredChunkSize
    /\ \E env \in 0..MaxConcurrencyEnv : GEMINI_ANALYSIS_CONCURRENCY = Max(1, env)
    /\ semaphore = Max(1, GEMINI_ANALYSIS_CONCURRENCY)
    /\ sessions = CachedSessions
    /\ progress = [s \in SessionIds |-> IF s \in CachedSessions THEN <<ExtractDone>> ELSE <<>>]
    /\ report = [s \in SessionIds |-> <<>>]
    /\ analysis_result = [s \in SessionIds |-> <<>>]
    /\ runs = [r \in Runs |-> IdleRun]
    /\ InitHandlersIdle

Next ==
    \E r \in Runs :
        \/ AnalyzeReport(r)
        \/ BackgroundLoad(r)
        \/ BackgroundDerive(r)
        \/ BackgroundCreateTasks(r)
        \/ \E b \in DOMAIN runs[r].tasks : TaskAcquire(r, b)
        \/ \E b \in DOMAIN runs[r].tasks : TaskResolve(r, b)
        \/ BackgroundGathered(r)
        \/ BackgroundProcess(r)
        \/ BackgroundStoreResult(r)
        \/ BackgroundStoreFinal(r)

Spec == Init /\ [][Next]_vars

(***************************************************************************)
(* app/routes.py: get_progress and get_analyze_report_result, the polls of *)
(* a client.                                                               *)
(***************************************************************************)
\* an HTTP answer: the status code and the fields of the body
Response(code, status, progress_body, message, data) ==
    [code |-> code, status |-> status, progress |-> progress_body, message |-> message,
     data |-> data]

\* line 111: what get_progress returns when the cache holds no snapshot
DefaultProgress ==
    [step |-> 0, total_steps |-> 4, percentage |-> 0, completed |-> FALSE, error |-> FALSE,
     message |-> "Inicializacija..."]

\* lines 108-113
get_progress(session_id) ==
    IF progress[session_id] = <<>>
    THEN Response(200, "", <<DefaultProgress>>, "", <<>>)
    ELSE Response(200, "", progress[session_id], "", <<>>)

\* lines 648-663
get_analyze_report_result(session_id) ==
    IF progress[session_id] = <<>>
    THEN Response(404, "", <<>>, "Seja ne obstaja", <<>>)
    ELSE IF ~progress[session_id][1].completed
    THEN Response(200, "processing", progress[session_id], "", <<>>)
    ELSE IF progress[session_id][1].error
    THEN Response(200, "error", <<>>, progress[session_id][1].message, <<>>)
    ELSE IF analysis_result[session_id] = <<>>
    THEN Response(404, "", <<>>, "Rezultat ne obstaja", <<>>)
    ELSE Response(200, "completed", <<>>, "", analysis_result[session_id])

\* a poll is answered; seen is the snapshot the cache held for the session
Poll(handler, session_id, response) ==
    /\ polled' = <<[handler |-> handler, session_id |-> session_id,
                    seen |-> progress[session_id], response |-> response]>>
    /\ UNCHANGED <<derive_vars, chunk_vars, orch_vars, confirm_cache, confirmed, revisions,
                   uploads>>

GetProgress(session_id) == Poll("get_progress", session_id, get_progress(session_id))

GetAnalyzeReportResult(session_id) ==
    Poll("get_analyze_report_result", session_id, get_analyze_report_result(session_id))

\* the process with one session extracted and one permit, polled by clients
InitPoll ==
    /\ InitDeriveIdle
    /\ chunk_data = <<>> /\ chunk_out = <<>> /\ chunk_pc = "idle"
    /\ chunk_size = ConfiguredChunkSize
    /\ GEMINI_ANALYSIS_CONCURRENCY = 1
    /\ semaphore = Max(1, GEMINI_ANALYSIS_CONCURRENCY)
    /\ sessions = {"s2"}
    /\ progress = [s \in SessionIds |-> IF s \in sessions THEN <<ExtractDone>> ELSE <<>>]
    /\ report = [s \in SessionIds |-> <<>>]
    /\ analysis_result = [s \in SessionIds |-> <<>>]
    /\ runs = [r \in Runs |-> IdleRun]
    /\ InitHandlersIdle

NextPoll ==
    \/ Next
    \/ \E session_id \in SessionIds : GetProgress(session_id)
    \/ \E session_id \in SessionIds : GetAnalyzeReportResult(session_id)

SpecPoll == InitPoll /\ [][NextPoll]_vars

\* the steps of the background task of run r and of its batch calls
BackgroundStep(r) ==
    \/ BackgroundLoad(r)
    \/ BackgroundDerive(r)
    \/ BackgroundCreateTasks(r)
    \/ \E b \in DOMAIN runs[r].tasks : TaskResolve(r, b)
    \/ BackgroundGathered(r)
    \/ BackgroundProcess(r)
    \/ BackgroundStoreResult(r)
    \/ BackgroundStoreFinal(r)

\* the event loop runs every task that can run, every judgment call returns
\* or fails, and asyncio.Semaphore wakes its waiters in the order they came
SpecRunFair ==
    /\ InitPoll
    /\ [][Next]_vars
    /\ \A r \in Runs : WF_vars(BackgroundStep(r))
    /\ \A r \in Runs : SF_vars(\E b \in DOMAIN runs[r].tasks : TaskAcquire(r, b))

(***************************************************************************)
(* Properties of the orchestration.                                        *)
(***************************************************************************)
\* the ids run r sent to the model, batch by batch
BatchIds(r, b) == Range(runs[r].zahteve_chunks[b])
SelectedIds(r) == UNION {BatchIds(r, b) : b \in DOMAIN runs[r].zahteve_chunks}

\* the run wrote the success snapshot of line 567
Succeeded(r) ==
    /\ runs[r].pc = "done"
    /\ runs[r].written[Len(runs[r].written)] = Snapshot(5, 100, TRUE, FALSE, "Analiza koncana!")

\* what became of batch b of run r
BatchFailed(r, b) ==
    runs[r].tasks[b].response.kind = "exception" \/ parse_raises(runs[r].tasks[b].response)
BatchSucceeded(r, b) == runs[r].tasks[b].response.kind = "list"

\* C1: once a run has completed, the result map it stored as the canonical
\* one has an entry for every id that was selected for analysis, a judgment
\* or a 'Neznano' placeholder, whatever became of the batches.
C1_Completeness ==
    \A r \in Runs :
        Succeeded(r) =>
            \A id \in SelectedIds(r) :
                /\ id \in DOMAIN runs[r].combined_results_map
                /\ runs[r].combined_results_map[id].skladnost \in {"Skladno", "Neznano"}

\* the judgment calls in flight: inside the network call of analyze_compliance
InFlight ==
    {<<r, b>> \in Runs \X (1..MaxZahteve) :
        b \in DOMAIN runs[r].tasks /\ runs[r].tasks[b].state = "inflight"}

\* C2: in every state at most N = max(1, GEMINI_ANALYSIS_CONCURRENCY) judgment
\* calls are in flight, counted over the batches of all runs of all sessions;
\* and a run whose prompts are to be built can build them whatever the
\* permits in use.
C2_ConcurrencyCap ==
    /\ Cardinality(InFlight) <= Max(1, GEMINI_ANALYSIS_CONCURRENCY)
    /\ \A r \in Runs : runs[r].pc = "tasks" => ENABLED BackgroundCreateTasks(r)

\* every permit is in use by calls of two sessions, and another batch, its
\* prompt built, waits for one
C2_Witness ==
    /\ GEMINI_ANALYSIS_CONCURRENCY >= 2
    /\ Cardinality(InFlight) = GEMINI_ANALYSIS_CONCURRENCY
    /\ \E x, y \in InFlight : runs[x[1]].session_id # runs[y[1]].session_id
    /\ \E r \in Runs : \E b \in DOMAIN runs[r].tasks :
           runs[r].pc = "gather" /\ runs[r].tasks[b].state = "created"

\* C3: a run in which some batches failed and others succeeded ends with the
\* success snapshot, and every judgment a succeeded batch returned for one
\* of its own ids is in the result map the run stored as the canonical one.
C3_FailureIsolation ==
    \A r \in Runs :
        (/\ runs[r].pc = "done"
         /\ runs[r].tasks # <<>>
         /\ \E b \in DOMAIN runs[r].tasks : BatchFailed(r, b)
         /\ \E b \in DOMAIN runs[r].tasks : BatchSucceeded(r, b))
        => /\ Succeeded(r)
           /\ \A b \in DOMAIN runs[r].tasks :
                  BatchSucceeded(r, b) =>
                      \A id \in runs[r].tasks[b].response.ids \cap BatchIds(r, b) :
                          /\ id \in DOMAIN runs[r].combined_results_map
                          /\ runs[r].combined_results_map[id] = Judgment(id, r, b)

\* C4: when a run restricted to ids T stores its map over a canonical map
\* with key set S, T a subset of S, the new canonical map has key set S and
\* the entries of S \ T are the ones it had.
C4_ScopedRerunFrame ==
    [][\A r \in Runs :
          (/\ runs[r].pc = "process" /\ runs'[r].pc = "store_result"
           /\ report[runs[r].session_id] # <<>>
           /\ SelectedIds(r) \subseteq DOMAIN report[runs[r].session_id][1])
          => /\ DOMAIN report'[runs[r].session_id][1] = DOMAIN report[runs[r].session_id][1]
             /\ \A id \in DOMAIN report[runs[r].session_id][1] \ SelectedIds(r) :
                    report'[runs[r].session_id][1][id] = report[runs[r].session_id][1][id]]_vars

\* the snapshots run r wrote, the one of the request first
Written(r) == runs[r].written
LastWritten(r) == Written(r)[Len(Written(r))]
\* the background task of run r has returned
Ended(r) == runs[r].pc = "done"

\* C14: over the snapshots one run writes, in the order it writes them, step
\* never decreases, percentage never decreases, and percentage is in 0..100.
C14_ProgressMonotone ==
    \A r \in Runs :
        \A i \in DOMAIN Written(r) :
            /\ Written(r)[i].percentage \in 0..100
            /\ i > 1 => /\ Written(r)[i - 1].step <= Written(r)[i].step
                        /\ Written(r)[i - 1].percentage <= Written(r)[i].percentage

\* C15: a background run that has ended wrote exactly one snapshot with
\* completed set, the last one it wrote, without the error flag or with the
\* error flag and a message; no snapshot of a run has the error flag without
\* completed.
C15_OneTerminalSnapshot ==
    \A r \in Runs :
        /\ \A i \in DOMAIN Written(r) : Written(r)[i].error => Written(r)[i].completed
        /\ Ended(r) =>
               /\ Cardinality({i \in DOMAIN Written(r) : Written(r)[i].completed}) = 1
               /\ LastWritten(r).completed
               /\ LastWritten(r).error => LastWritten(r).message # ""

\* one run ended with the failure snapshot and another one, after all its
\* batches were answered, with the success snapshot
C15_Witness ==
    \E r, q \in Runs :
        /\ Ended(r) /\ LastWritten(r).error /\ Len(Written(r)) >= 3
        /\ Ended(q) /\ ~LastWritten(q).error /\ Len(Written(q)) = 6

\* C16: when a run ends with the failure snapshot, the cache entry
\* report:<id> of its session is the one the session had when the run was
\* requested.
C16_FailedRunWritesNoMap ==
    [][\A r \in Runs :
          (~Ended(r) /\ runs'[r].pc = "done"
           /\ runs'[r].written[Len(runs'[r].written)].error)
          => report'[runs[r].session_id] = runs[r].report_before]_vars

\* C17: a poll of a session without a snapshot is answered as not found; with
\* a snapshot without completed, as processing with that snapshot; with
\* completed and error, as error with the snapshot's message; with completed
\* and no error, as completed with the result data of the run.
C17_StatusFromSnapshot ==
    \A i \in DOMAIN polled :
        LET seen == polled[i].seen
            response == polled[i].response
        IN IF seen = <<>> THEN response.code = 404
           ELSE IF polled[i].handler = "get_progress"
           THEN response.code = 200 /\ response.progress = seen
           ELSE IF ~seen[1].completed
           THEN /\ response.code = 200 /\ response.status = "processing"
                /\ response.progress = seen
           ELSE IF seen[1].error
           THEN /\ response.code = 200 /\ response.status = "error"
                /\ response.message = seen[1].message
           ELSE /\ response.code = 200 /\ response.status = "completed"
                /\ response.data # <<>>

\* the request of run r names an unknown session, carries no land-use code,
\* or selects no derived requirement
InputError(r) ==
    \/ runs[r].session_id \notin sessions
    \/ runs[r].final_raba_list = <<>>
    \/ filter_selected(build_requirements_ids(runs[r].session_id), runs[r].selected_ids) = <<>>

\* C18: a request with an input error is rejected by the request itself, and
\* the run wrote no snapshot, made no judgment call and built no result map.
C18_InputErrorsRejected ==
    \A r \in Runs :
        (runs[r].pc # "idle" /\ InputError(r))
        => /\ runs[r].pc = "rejected"
           /\ Written(r) = <<>>
           /\ runs[r].tasks = <<>>
           /\ runs[r].combined_results_map = <<>>

\* C21: the canonical map a run stores is the payload's map updated, batch
\* by batch in the order of the batches, with each batch's response parsed
\* against that batch's requirements, whatever the order in which the calls
\* finished.
C21_CompletionOrderIndependent ==
    \A r \in Runs :
        runs[r].pc = "store_result" =>
            /\ report[runs[r].session_id] = <<runs[r].combined_results_map>>
            /\ runs[r].combined_results_map =
                   ProcessResponses(runs[r].existing_results_map,
                                    [b \in DOMAIN runs[r].tasks |-> runs[r].tasks[b].response],
                                    runs[r].zahteve_chunks, r, 1)

\* a run of three batches stored its map after the last batch finished
\* first and the first one last; the first and the last batch were answered
\* with lists, and their judgments are in the map
C21_Witness ==
    \E r \in Runs :
        /\ runs[r].pc = "store_result"
        /\ runs[r].finished = <<3, 2, 1>>
        /\ BatchSucceeded(r, 1) /\ BatchSucceeded(r, 3)
        /\ \A b \in {1, 3} : \E id \in BatchIds(r, b) :
               /\ id \in DOMAIN runs[r].combined_results_map
               /\ runs[r].combined_results_map[id] = Judgment(id, r, b)

\* the cache holds a snapshot for session s that is not terminal / is terminal
Pending(s) == progress[s] # <<>> /\ ~progress[s][1].completed
Terminal(s) == progress[s] # <<>> /\ progress[s][1].completed

\* C22: whenever the snapshot of a session is not terminal, a terminal
\* snapshot of the session follows.
C22_EveryRunTerminates == \A s \in SessionIds : Pending(s) ~> Terminal(s)

(***************************************************************************)
(* app/routes.py: confirm_report, the merge of updated_results_map into    *)
(* the cached report.                                                      *)
(***************************************************************************)
\* confirm_report requests answered in one behaviour
MaxConfirms == 2

\* a key of a result map: its Python type and its string form. Keys read
\* back from the cache (json.loads) and keys of a Dict[str, Any] payload
\* are strings.
StrKey(text) == [type |-> "str", text |-> text]
IntKey(text) == [type |-> "int", text |-> text]
str(key) == key.text

\* str.isdigit and str(int(text)) for the digit strings of the model
isdigit(text) == text \in {"7", "07"}
int_text(text) == IF text = "07" THEN "7" ELSE text

\* a value of a result map: a dict with its fields, or anything else
Dict(fields) == [is_dict |-> TRUE, fields |-> fields]
Scalar == [is_dict |-> FALSE, fields |-> <<>>]

\* lines 850-869: the key an incoming key is merged under
ResolveKey(raw_key, existing_key_lookup, preferred_type) ==
    LET found == str(raw_key) \in DOMAIN existing_key_lookup
        looked_up == IF found THEN existing_key_lookup[str(raw_key)] ELSE raw_key
        coerced ==
            IF ~found /\ preferred_type # "none" /\ raw_key.type # preferred_type
            THEN IF preferred_type = "str" THEN StrKey(str(raw_key))
                 ELSE IF isdigit(str(raw_key)) /\ int_text(str(raw_key)) = str(raw_key)
                      THEN IntKey(int_text(str(raw_key)))
                      ELSE looked_up
            ELSE looked_up
    IN IF ~found /\ coerced = raw_key /\ raw_key.type = "str" /\ isdigit(str(raw_key))
          /\ preferred_type = "int"
       THEN IntKey(int_text(str(raw_key)))
       ELSE coerced

\* the merge that removes a field both entries carry
MergeEntry_Toggle(base_value, value) ==
    IF base_value.is_dict
    THEN Dict([f \in (DOMAIN base_value.fields \ DOMAIN value.fields)
                      \cup (DOMAIN value.fields \ DOMAIN base_value.fields) |->
                  IF f \in DOMAIN value.fields THEN value.fields[f] ELSE base_value.fields[f]])
    ELSE value

\* the merge that replaces the entry
MergeEntry_Replace(base_value, value) == value

\* line 872: {**base_value, **value} if isinstance(base_value, dict) else value.copy()
MergeEntry(base_value, value) ==
    IF base_value.is_dict THEN Dict(update(base_value.fields, value.fields)) ELSE value

\* lines 846-874: the loop over the incoming items, from the k-th on;
\* state is [merged_map, existing_key_lookup, results_updated]
RECURSIVE MergeLoop(_, _, _, _)
MergeLoop(state, updated_results_map, preferred_type, k) ==
    IF k > Len(updated_results_map) THEN state
    ELSE LET raw_key == updated_results_map[k].key
             value == updated_results_map[k].value
         IN IF ~value.is_dict
            THEN MergeLoop(state, updated_results_map, preferred_type, k + 1)
            ELSE LET target_key == ResolveKey(raw_key, state.existing_key_lookup, preferred_type)
                     base_value == IF target_key \in DOMAIN state.merged_map
                                   THEN state.merged_map[target_key] ELSE Dict(<<>>)
                 IN MergeLoop(
                        [merged_map |-> update(state.merged_map,
                                               [t \in {target_key} |-> MergeEntry(base_value, value)]),
                         existing_key_lookup |-> update(state.existing_key_lookup,
                                                        [t \in {str(target_key)} |-> target_key]),
                         results_updated |-> TRUE],
                        updated_results_map, preferred_type, k + 1)

\* lines 831-877: the results_map of the cache entry after the request
merge_results_map(existing_map, updated_results_map) ==
    IF updated_results_map = <<>> THEN existing_map
    ELSE LET existing_key_lookup == [t \in {str(key) : key \in DOMAIN existing_map} |->
                                        CHOOSE key \in DOMAIN existing_map : str(key) = t]
             preferred_type == IF DOMAIN existing_map = {} THEN "none"
                               ELSE (CHOOSE key \in DOMAIN existing_map : TRUE).type
             final == MergeLoop([merged_map |-> existing_map,
                                 existing_key_lookup |-> existing_key_lookup,
                                 results_updated |-> FALSE],
                                updated_results_map, preferred_type, 1)
         IN IF final.results_updated THEN final.merged_map ELSE existing_map

\* the requirement ids of the report
ConfirmKeys == <<StrKey("Z_0"), StrKey("Z_1")>>

\* the result maps a cached report may hold: per id no entry, a judgment
\* with its fields, or a value that is no dict (existing_results_map is
\* Dict[str, Any])
CachedEntries == {Dict([skladnost |-> "a", evidence |-> "a"]), Scalar}
CachedResultMaps ==
    UNION {[keys -> CachedEntries] : keys \in SUBSET Range(ConfirmKeys)}

\* the values and the updated_results_map objects a client sends: items in
\* the order of ConfirmKeys
UpdateValues ==
    {Scalar, Dict([skladnost |-> "b"]), Dict([evidence |-> "c"]),
     Dict([skladnost |-> "c", evidence |-> "b"])}
UpdatedMaps ==
    {<<>>}
        \cup {<<[key |-> k, value |-> v]>> : k \in Range(ConfirmKeys), v \in UpdateValues}
        \cup {<<[key |-> ConfirmKeys[1], value |-> v], [key |-> ConfirmKeys[2], value |-> w]>> :
                 v \in UpdateValues, w \in UpdateValues}

\* lines 822-892: 404 without a cached report; otherwise the merged map is
\* stored when an item was merged
ConfirmReportOf(payloads) ==
    /\ Len(confirmed) < MaxConfirms
    /\ \E updated_results_map \in payloads :
           IF confirm_cache = <<>>
           THEN /\ confirmed' = Append(confirmed,
                       [status |-> 404, updated_results_map |-> updated_results_map,
                        before |-> <<>>, after |-> <<>>])
                /\ UNCHANGED confirm_cache
           ELSE LET merged == merge_results_map(confirm_cache[1], updated_results_map)
                IN /\ confirm_cache' = <<merged>>
                   /\ confirmed' = Append(confirmed,
                          [status |-> 200, updated_results_map |-> updated_results_map,
                           before |-> confirm_cache[1], after |-> merged])
    /\ UNCHANGED <<derive_vars, chunk_vars, orch_vars, polled, revisions, uploads>>

ConfirmReport == ConfirmReportOf(UpdatedMaps)

InitConfirm ==
    /\ confirm_cache \in {<<>>} \cup {<<m>> : m \in CachedResultMaps}
    /\ confirmed = <<>>
    /\ polled = <<>>
    /\ revisions = <<>>
    /\ uploads = <<>>
    /\ InitDeriveIdle
    /\ InitChunkIdle
    /\ InitOrchIdle

NextConfirm == ConfirmReport

SpecConfirm == InitConfirm /\ [][NextConfirm]_vars

\* The key resolution of lines 850-869 on its own: result maps whose keys are
\* integers or strings (merged_map is Dict[Any, ...]), and updates of one
\* item whose key is the string or the integer 7, the string "07", or an id
MixedKeys == {IntKey("7"), IntKey("8"), StrKey("7"), StrKey("Z_0")}
MixedResultMaps ==
    {<<>>} \cup {[key \in {existing_key} |-> Dict([skladnost |-> "a", evidence |-> "a"])] :
                    existing_key \in MixedKeys}
MixedUpdates ==
    {<<[key |-> raw_key, value |-> value]>> :
        raw_key \in {StrKey("7"), StrKey("07"), StrKey("Z_0"), IntKey("7")},
        value \in UpdateValues}

ConfirmReportMixed == ConfirmReportOf(MixedUpdates)

InitResolve ==
    /\ confirm_cache \in {<<m>> : m \in MixedResultMaps}
    /\ confirmed = <<>>
    /\ polled = <<>>
    /\ revisions = <<>>
    /\ uploads = <<>>
    /\ InitDeriveIdle
    /\ InitChunkIdle
    /\ InitOrchIdle

NextResolve == ConfirmReportMixed

SpecResolve == InitResolve /\ [][NextResolve]_vars

(***************************************************************************)
(* Properties of the merge.                                                *)
(***************************************************************************)
\* the item an update carries for the key with string form t, if any
ItemsFor(updated_results_map, t) ==
    {i \in DOMAIN updated_results_map : str(updated_results_map[i].key) = t}

\* C11: when the same update is merged twice in a row, the canonical map
\* after the second merge is the map after the first.
C11_MergeIdempotent ==
    \A i \in DOMAIN confirmed :
        (/\ i > 1
         /\ confirmed[i].status = 200
         /\ confirmed[i].updated_results_map = confirmed[i - 1].updated_results_map)
        => confirmed[i].after = confirmed[i - 1].after

\* the same update merged twice, one that changed a field of an entry on
\* file and left another field of it alone
C11_Witness ==
    /\ Len(confirmed) = 2
    /\ confirmed[2].status = 200
    /\ confirmed[2].updated_results_map = confirmed[1].updated_results_map
    /\ confirmed[1].after # confirmed[1].before
    /\ \E k \in DOMAIN confirmed[1].before :
           /\ confirmed[1].before[k].is_dict
           /\ confirmed[1].after[k].fields.skladnost = "b"
           /\ confirmed[1].after[k].fields.evidence = "a"

\* the fields an update sets for a key: those of its dict item for the key
SetsFields(updated_results_map, key) ==
    \E i \in DOMAIN updated_results_map :
        updated_results_map[i].key = key /\ updated_results_map[i].value.is_dict

FieldsSet(updated_results_map, key) ==
    IF SetsFields(updated_results_map, key)
    THEN LET i == CHOOSE j \in DOMAIN updated_results_map :
                      updated_results_map[j].key = key /\ updated_results_map[j].value.is_dict
         IN updated_results_map[i].value.fields
    ELSE <<>>

\* the combined update of A and B: each key either of them sets carries A's
\* fields overwritten by B's
CombinedUpdate(A, B) ==
    LET set_keys == SelectSeq(ConfirmKeys, LAMBDA key : SetsFields(A, key) \/ SetsFields(B, key))
    IN [n \in DOMAIN set_keys |->
           [key |-> set_keys[n],
            value |-> Dict(update(FieldsSet(A, set_keys[n]), FieldsSet(B, set_keys[n])))]]

\* C12: two updates merged one after the other leave the canonical map that
\* one merge of their combined update (A's fields overwritten by B's where
\* both set the same field) makes of the map the first merge started from.
C12_SuccessiveEqualsCombined ==
    \A i \in DOMAIN confirmed :
        (i > 1 /\ confirmed[i].status = 200)
        => confirmed[i].after =
               merge_results_map(confirmed[i - 1].before,
                                 CombinedUpdate(confirmed[i - 1].updated_results_map,
                                                confirmed[i].updated_results_map))

\* two merges that set the same field of the same entry on file to different
\* values, the first one setting a field the second leaves alone
C12_Witness ==
    /\ Len(confirmed) = 2
    /\ confirmed[2].status = 200
    /\ \E key \in DOMAIN confirmed[1].before :
           /\ confirmed[1].before[key].is_dict
           /\ FieldsSet(confirmed[1].updated_results_map, key) =
                  [skladnost |-> "c", evidence |-> "b"]
           /\ FieldsSet(confirmed[2].updated_results_map, key) = [skladnost |-> "b"]
           /\ confirmed[2].after[key] = Dict([skladnost |-> "b", evidence |-> "b"])

\* C13: a merge keeps every id of the canonical map; an entry the update does
\* not set is unchanged; in an entry it sets, every field the incoming item
\* names has the incoming value and every other field keeps its value.
C13_ShallowOverwriteFrame ==
    \A i \in DOMAIN confirmed :
        confirmed[i].status = 200 =>
            LET before == confirmed[i].before
                after == confirmed[i].after
                updated_results_map == confirmed[i].updated_results_map
            IN /\ DOMAIN before \subseteq DOMAIN after
               /\ \A key \in DOMAIN before :
                      IF ~SetsFields(updated_results_map, key)
                      THEN after[key] = before[key]
                      ELSE LET incoming == FieldsSet(updated_results_map, key)
                           IN /\ after[key].is_dict
                              /\ \A f \in DOMAIN incoming :
                                     f \in DOMAIN after[key].fields
                                     /\ after[key].fields[f] = incoming[f]
                              /\ before[key].is_dict =>
                                     \A f \in DOMAIN before[key].fields \ DOMAIN incoming :
                                         f \in DOMAIN after[key].fields
                                         /\ after[key].fields[f] = before[key].fields[f]

\* a merge into a map of two entries with fields: the update names one field
\* of one of them and does not mention the other entry
C13_Witness ==
    /\ Len(confirmed) >= 1
    /\ confirmed[1].status = 200
    /\ DOMAIN confirmed[1].before = Range(ConfirmKeys)
    /\ \A key \in Range(ConfirmKeys) : confirmed[1].before[key].is_dict
    /\ \E key \in Range(ConfirmKeys) :
           /\ FieldsSet(confirmed[1].updated_results_map, key) = [skladnost |-> "b"]
           /\ confirmed[1].after[key] = Dict([skladnost |-> "b", evidence |-> "a"])
           /\ \A other \in Range(ConfirmKeys) \ {key} :
                  /\ ~SetsFields(confirmed[1].updated_results_map, other)
                  /\ confirmed[1].after[other] = confirmed[1].before[other]

LatestRun(r) ==
    /\ runs[r].pc # "idle"
    /\ \A q \in Runs : (q > r /\ runs[q].pc # "idle") => runs[q].session_id # runs[r].session_id

\* the snapshot a run writes last when it succeeded
SuccessTerminal(snap) == snap.completed /\ ~snap.error /\ snap.total_steps = 5

\* C26: when the snapshot on file of a run's session is the success terminal
\* snapshot of that run, report:<id> and analysis_result:<id> hold the map
\* the run produced, and a poll that saw such a snapshot was answered as
\* completed with result data.
C26_CompletedHasResult ==
    /\ \A r \in Runs :
          (LatestRun(r) /\ progress[runs[r].session_id] # <<>>
           /\ SuccessTerminal(progress[runs[r].session_id][1]))
          => /\ Ended(r)
             /\ LastWritten(r) = progress[runs[r].session_id][1]
             /\ report[runs[r].session_id] = <<runs[r].combined_results_map>>
             /\ analysis_result[runs[r].session_id] = <<runs[r].combined_results_map>>
    /\ \A i \in DOMAIN polled :
          (polled[i].handler = "get_analyze_report_result" /\ polled[i].seen # <<>>
           /\ SuccessTerminal(polled[i].seen[1]))
          => /\ polled[i].response.status = "completed"
             /\ polled[i].response.data # <<>>

\* a run ended with its success snapshot and a poll of its session was
\* answered as completed with the map the run produced
C26_Witness ==
    \E r \in Runs :
        /\ Ended(r) /\ LatestRun(r)
        /\ SuccessTerminal(LastWritten(r))
        /\ runs[r].combined_results_map # <<>>
        /\ polled # <<>>
        /\ polled[1].handler = "get_analyze_report_result"
        /\ polled[1].session_id = runs[r].session_id
        /\ polled[1].response.status = "completed"
        /\ polled[1].response.data = <<runs[r].combined_results_map>>

\* C27: the map a run stored has no key besides those of the map the
\* request supplied and the selected ids, and every entry a response of the
\* run wrote is the entry of an id of the batch the response answers.
C27_OwnBatchOnly ==
    \A r \in Runs :
        Succeeded(r) =>
            /\ DOMAIN runs[r].combined_results_map
                   \subseteq DOMAIN runs[r].existing_results_map \cup SelectedIds(r)
            /\ \A id \in DOMAIN runs[r].combined_results_map :
                   runs[r].combined_results_map[id].run = r
                   => id \in BatchIds(r, runs[r].combined_results_map[id].batch)

\* C28: once two accepted upload_revision requests of a session have both
\* completed, the revision_history of the session holds the records of
\* both and the project text holds the text of each that had text.
C28_BothRetained ==
    (\A u \in Uploaders : uploads[u].pc = "done") =>
        /\ Len(session_data.revision_history) = Cardinality(Uploaders)
        /\ \A u \in Uploaders :
               /\ [requirement_ids |-> uploads[u].parsed_ids, note |-> uploads[u].note]
                      \in Range(session_data.revision_history)
               /\ uploads[u].text # <<>>
                      => uploads[u].text[1] \in Range(session_data.project_text)

\* C30: no step of an upload_revision request up to and including its
\* rejection (404 or 400) inserts a revision row, stores a file or changes
\* the cached session.
C30_RejectedChangesNothing ==
    [][\A u \in Uploaders :
          (uploads'[u] # uploads[u] /\ uploads'[u].pc \in {"files", "rejected"})
          => /\ revisions' = revisions
             /\ session_data' = session_data
             /\ uploads'[u].stored_files = 0]_vars

\* one request was accepted and completed, the other one was rejected for
\* having no file with content, and the session holds one revision
C30_Witness ==
    \E u, v \in Uploaders :
        /\ uploads[u].pc = "done"
        /\ uploads[v].pc = "rejected" /\ uploads[v].code = 400 /\ uploads[v].parsed_ids # <<>>
        /\ Len(session_data.revision_history) = 1
        /\ Len(revisions) = 1

\* C29: the permits not held by a call in flight are all free, whatever way
\* the resolved calls ended; so when no call is in flight all N permits are
\* free and a call waiting for a permit can take one.
C29_PermitReleased ==
    /\ semaphore + Cardinality(InFlight) = Max(1, GEMINI_ANALYSIS_CONCURRENCY)
    /\ InFlight = {} =>
           \A r \in Runs : \A b \in DOMAIN runs[r].tasks :
               (runs[r].pc = "gather" /\ runs[r].tasks[b].state = "created")
               => ENABLED TaskAcquire(r, b)

\* with a single permit, a run ended after one of its calls raised, and a
\* call of a later run holds the permit
C29_Witness ==
    /\ GEMINI_ANALYSIS_CONCURRENCY = 1
    /\ \E r, q \in Runs :
           /\ r < q
           /\ Ended(r)
           /\ \E b \in DOMAIN runs[r].tasks : runs[r].tasks[b].response = RaisedException
           /\ \E b \in DOMAIN runs[q].tasks : runs[q].tasks[b].state = "inflight"
====
